---- MODULE Spec2Model ----
(***************************************************************************)
(* Authentication and session boundary of the learning-management app:     *)
(* the NestJS credential issuer (AuthService), the access gate             *)
(* (JwtAuthGuard / JwtStrategy), the admin-only course creation, and the   *)
(* axios client with its request and response interceptors.                *)
(***************************************************************************)
EXTENDS Integers, Sequences, FiniteSets, TLC

(***************************************************************************)
(* Bounds of the model                                                     *)
(***************************************************************************)
MaxUsers == 2
MaxCourses == 1
MaxTime == 2
MaxEnrollments == 2
MaxListed == 2
TokenTTL == 1

(***************************************************************************)
(* Value domains                                                           *)
(***************************************************************************)
Emails == {"a@x", "b@x"}
Passwords == {"pw1", "pw2"}
Names == {"n1"}
Salts == {"s1"}
Titles == {"t1"}
Roles == {"admin", "instructor", "student"}
NoRole == "undefined"
ServerKey == "abc123"
OtherKey == "other"
ReqIds == {"r1", "r2"}

NoToken == [sub |-> 0, email |-> "", role |-> "", iat |-> 0, exp |-> 0, key |-> ""]
NoUser == [id |-> 0, name |-> "", email |-> "", role |-> ""]
NoBody == [name |-> "", email |-> "", password |-> "", role |-> "", title |-> "",
           course |-> 0]
NoResp == [status |-> 0, message |-> "", access_token |-> NoToken, user |-> NoUser]
NoHeader == [scheme |-> "", token |-> NoToken]
NoCourse == [id |-> 0, title |-> "", instructor |-> 0]
NoEnrollment == [id |-> 0, student |-> 0, course |-> 0]
NoLast == [kind |-> "", status |-> 0]
Idle == [kind |-> "idle", pc |-> "idle", viaApi |-> FALSE, auth |-> NoHeader,
         body |-> NoBody, user |-> NoUser, resp |-> NoResp, stages |-> << >>]

\* users, courses,     the tables of the database, with their id sequences
\* enrollments
\* now                 the clock the token expiry is measured against
\* reqs                the HTTP requests in flight, one record per slot
\* lsToken, lsUser     the localStorage entries `token` and `user`
\* location            the route the browser shows
\* last                kind and status of the last response the api instance got
\* held                a token kept by a caller outside the client
\* loggedOut           the token of the session that Header.handleLogout ended last
\* page                the component state of the mounted page
\* order               the awaited calls of the client, in the order sent
\* stale               the awaited calls sent before the stored session's login
\* late                the stored session was ended by the 401 of such a call
VARIABLES users, nextUserId, courses, nextCourseId, enrollments, nextEnrollmentId,
          now, reqs, lsToken, lsUser, location, last, held, loggedOut, page, stale,
          order, late

vars == <<users, nextUserId, courses, nextCourseId, enrollments, nextEnrollmentId,
          now, reqs, lsToken, lsUser, location, last, held, loggedOut, page, stale, order, late>>

server == <<users, nextUserId, courses, nextCourseId, enrollments, nextEnrollmentId>>
client == <<lsToken, lsUser, location, last>>

(***************************************************************************)
(* bcrypt: a salted one-way hash, kept as the term H(salt, password); the  *)
(* comparison re-hashes the candidate with the salt stored in the hash.    *)
(***************************************************************************)
bcryptHash(password, salt) == [salt |-> salt, digest |-> <<"H", salt, password>>]

bcryptCompare(password, hash) == bcryptHash(password, hash.salt) = hash

(***************************************************************************)
(* UsersService                                                            *)
(***************************************************************************)
findByEmail(email) == {u \in users : u.email = email}

findOne(id) == {u \in users : u.id = id}

validatePassword(user, password) == bcryptCompare(password, user.password)

\* a users table without the unique index
uniqueViolation_NoIndex(email) == FALSE

\* usersRepo.save under the unique index of User.email
uniqueViolation(email) == \E u \in users : u.email = email

\* a create that stores the password as submitted: a value no hash produces
newUser_Plaintext(dto, salt) ==
    [id |-> nextUserId, name |-> dto.name, email |-> dto.email,
     password |-> [salt |-> "", digest |-> <<"P", "", dto.password>>],
     role |-> dto.role]

\* UsersService.create: hash, then insert with the generated primary key
newUser(dto, salt) ==
    [id |-> nextUserId, name |-> dto.name, email |-> dto.email,
     password |-> bcryptHash(dto.password, salt), role |-> dto.role]

(***************************************************************************)
(* AuthService.login: the claim set and the signed token                   *)
(***************************************************************************)
\* payload with a mistyped id field: the subject comes out undefined
payload_NoSubject(user) == [email |-> user.email, sub |-> 0, role |-> user.role]

payload(user) == [email |-> user.email, sub |-> user.id, role |-> user.role]

sign(p, t) ==
    [sub |-> p.sub, email |-> p.email, role |-> p.role,
     iat |-> t, exp |-> t + TokenTTL, key |-> ServerKey]

login(user, t) ==
    [status |-> 201, message |-> "",
     access_token |-> sign(payload(user), t),
     user |-> [id |-> user.id, name |-> user.name, email |-> user.email,
               role |-> user.role]]

error(status, message) ==
    [status |-> status, message |-> message, access_token |-> NoToken, user |-> NoUser]

\* validateUser with a message of its own for the unknown email
validateUser_Leaky(email, password, t) ==
    LET found == findByEmail(email) IN
    IF found = {} THEN error(401, "User not found")
    ELSE LET user == CHOOSE u \in found : TRUE IN
         IF ~validatePassword(user, password)
         THEN error(401, "Invalid credentials")
         ELSE login(user, t)

\* AuthService.validateUser: the response of a login request
validateUser(email, password, t) ==
    LET found == findByEmail(email) IN
    IF found = {} THEN error(401, "Invalid credentials")
    ELSE LET user == CHOOSE u \in found : TRUE IN
         IF ~validatePassword(user, password)
         THEN error(401, "Invalid credentials")
         ELSE login(user, t)

(***************************************************************************)
(* AuthService.register                                                    *)
(***************************************************************************)
\* the duplicate-email rejection thrown by register
emailExists == error(401, "Email already exists")

\* a registration that makes every new user a student
roleOrDefault_Student(role) == "student"

\* role: registerDto.role || 'student'
roleOrDefault(role) == IF role = NoRole THEN "student" ELSE role

\* the failure of an insert the database rejects (Nest's default filter)
queryFailed == error(500, "Internal server error")

(***************************************************************************)
(* JwtStrategy: the options given to passport-jwt, and validate            *)
(***************************************************************************)
secretOrKey == ServerKey

ignoreExpiration == FALSE

\* jwtFromRequest: ExtractJwt.fromAuthHeaderAsBearerToken()
fromAuthHeaderAsBearerToken(header) ==
    IF header.scheme = "Bearer" THEN header.token ELSE NoToken

\* verification that also refuses the token of a session that was logged out
verify_Denylist(token, t) ==
    /\ token.key = ServerKey
    /\ t < token.exp
    /\ token # loggedOut

\* verification that checks the signature only
verify_IgnoreExpiration(token, t) == token.key = secretOrKey

\* signature and expiry verification under the strategy's options
verify(token, t) ==
    /\ token.key = secretOrKey
    /\ (ignoreExpiration \/ t < token.exp)

\* validate that fetches the user but keeps the role of the payload
validate_TokenRole(token) ==
    LET found == findOne(token.sub) IN
    IF found = {} THEN NoUser
    ELSE LET user == CHOOSE u \in found : TRUE IN
         [id |-> user.id, name |-> user.name, email |-> user.email, role |-> token.role]

\* validate without the check that the user was found
validate_Trusting(token) ==
    LET found == findOne(token.sub) IN
    IF found = {}
    THEN [id |-> token.sub, name |-> "", email |-> token.email, role |-> token.role]
    ELSE LET user == CHOOSE u \in found : TRUE IN
         [id |-> user.id, name |-> user.name, email |-> user.email, role |-> user.role]

\* JwtStrategy.validate: the principal attached as req.user, or none
validate(token) ==
    LET found == findOne(token.sub) IN
    IF found = {} THEN NoUser
    ELSE LET user == CHOOSE u \in found : TRUE IN
         [id |-> user.id, name |-> user.name, email |-> user.email, role |-> user.role]

unauthorized == error(401, "Unauthorized")

\* JwtAuthGuard: extraction, verification, principal lookup, in this order.
\* The result is the stages run, req.user, and the 401 response if it failed.
JwtAuthGuard(auth, t) ==
    LET token == fromAuthHeaderAsBearerToken(auth) IN
    IF token = NoToken
    THEN [stages |-> <<"extract">>, user |-> NoUser, resp |-> unauthorized]
    ELSE IF ~verify(token, t)
    THEN [stages |-> <<"extract", "verify">>, user |-> NoUser, resp |-> unauthorized]
    ELSE IF validate(token) = NoUser
    THEN [stages |-> <<"extract", "verify", "lookup">>, user |-> NoUser,
          resp |-> unauthorized]
    ELSE [stages |-> <<"extract", "verify", "lookup">>, user |-> validate(token),
          resp |-> NoResp]

(***************************************************************************)
(* CoursesController.create / CoursesService.create                        *)
(***************************************************************************)
\* a controller without the role check
isAdmin_Anyone(reqUser) == TRUE

\* a role check on the role the client holds in its `user` entry
isAdmin_Snapshot(reqUser) == lsUser.role = "admin"

\* the role check of the controller
isAdmin(reqUser) == reqUser.role = "admin"

forbidden == error(403, "Only admins can create courses")

newCourse(body, reqUser) ==
    [id |-> nextCourseId, title |-> body.title, instructor |-> reqUser.id]

created == [status |-> 201, message |-> "", access_token |-> NoToken, user |-> NoUser]

\* a role check on the claims of the token, run before the principal lookup
postCourses_RoleFirst(auth, body, t) ==
    LET token == fromAuthHeaderAsBearerToken(auth)
        g == JwtAuthGuard(auth, t)
    IN IF token # NoToken /\ verify(token, t) /\ token.role # "admin"
       THEN [stages |-> <<"extract", "verify", "roleCheck">>, user |-> NoUser,
             resp |-> forbidden, course |-> NoCourse]
       ELSE IF g.user = NoUser
       THEN [stages |-> g.stages, user |-> NoUser, resp |-> g.resp, course |-> NoCourse]
       ELSE [stages |-> Append(g.stages, "roleCheck"), user |-> g.user,
             resp |-> created, course |-> newCourse(body, g.user)]

\* POST /courses from the guard to the insert: the stages run, req.user, the
\* response, and the course to insert (none unless the request is authorized)
postCourses(auth, body, t) ==
    LET g == JwtAuthGuard(auth, t) IN
    IF g.user = NoUser
    THEN [stages |-> g.stages, user |-> NoUser, resp |-> g.resp, course |-> NoCourse]
    ELSE IF ~isAdmin(g.user)
    THEN [stages |-> Append(g.stages, "roleCheck"), user |-> g.user,
          resp |-> forbidden, course |-> NoCourse]
    ELSE [stages |-> Append(g.stages, "roleCheck"), user |-> g.user,
          resp |-> created, course |-> newCourse(body, g.user)]

(***************************************************************************)
(* EnrollmentsService.enroll                                               *)
(***************************************************************************)
\* enrollmentsRepo.findOne by student and course
existing(studentId, courseId) ==
    {e \in enrollments : e.student = studentId /\ e.course = courseId}

\* coursesRepo.findOne by id
findCourse(courseId) == {c \in courses : c.id = courseId}

alreadyEnrolled == error(409, "Already enrolled")

courseNotFound == error(404, "Course not found")

unenrolled == [status |-> 200, message |-> "", access_token |-> NoToken, user |-> NoUser]

enrolled == [status |-> 201, message |-> "", access_token |-> NoToken, user |-> NoUser]

newEnrollment(studentId, courseId) ==
    [id |-> nextEnrollmentId, student |-> studentId, course |-> courseId]

\* enroll without the look for an enrollment of the pair
enroll_NoCheck(studentId, courseId) ==
    IF findCourse(courseId) = {} THEN courseNotFound ELSE NoResp

\* the two reads of enroll: the exception thrown, or none when the enrollment
\* is to be saved
enroll(studentId, courseId) ==
    IF existing(studentId, courseId) # {} THEN alreadyEnrolled
    ELSE IF findCourse(courseId) = {} THEN courseNotFound
    ELSE NoResp

(***************************************************************************)
(* api.jsx: the axios instance and its interceptors                        *)
(***************************************************************************)
\* an interceptor that sets the header to the bare token
requestInterceptor_NoScheme(token) ==
    IF token # NoToken THEN [scheme |-> "", token |-> token] ELSE NoHeader

\* request interceptor: the Authorization header of an outgoing request
requestInterceptor(token) ==
    IF token # NoToken THEN [scheme |-> "Bearer", token |-> token] ELSE NoHeader

\* an interceptor that removes the token only
responseInterceptor_TokenOnly(resp, cl) ==
    IF resp.status = 401
    THEN [token |-> NoToken, user |-> cl.user, location |-> "/login"]
    ELSE cl

\* an interceptor that leaves a stored session alone
responseInterceptor_KeepsSession(resp, cl) ==
    IF resp.status = 401 /\ cl.token = NoToken
    THEN [token |-> NoToken, user |-> NoUser, location |-> "/login"]
    ELSE cl

\* an interceptor that ends the session on every failed call
responseInterceptor_AnyError(resp, cl) ==
    [token |-> NoToken, user |-> NoUser, location |-> "/login"]

\* response interceptor, error branch: the client state after a failed response
responseInterceptor(resp, cl) ==
    IF resp.status = 401
    THEN [token |-> NoToken, user |-> NoUser, location |-> "/login"]
    ELSE cl

PublicLocations == {"/login", "/register"}

AdminPages == {"/admin-dashboard", "/admin/courses", "/admin/users",
               "/admin/enrollments", "/admin/create-course", "/admin/edit-course/:id"}

StudentPages == {"/student-dashboard", "/student/courses", "/student/my-courses"}

\* the routes of App: the home route and the routes that render a page
Locations == {"/"} \cup PublicLocations \cup AdminPages \cup StudentPages

\* a redirect that tells the student role from the others
dashboardOf_StudentOrNot(role) ==
    IF role = "student" THEN "/student-dashboard" ELSE "/admin-dashboard"

\* Login.handleSubmit / Register.handleSubmit: the dashboard of a role
dashboardOf(role) == IF role = "admin" THEN "/admin-dashboard" ELSE "/student-dashboard"

\* a wrapper that renders its children whatever the storage holds
ProtectedRoute_Open(loc, token) == loc

\* App.ProtectedRoute
ProtectedRoute(loc, token) ==
    IF loc \notin PublicLocations /\ token = NoToken THEN "/login" ELSE loc

\* a success path that stores the token and leaves the `user` entry as it was
storeSession_TokenOnly(resp, cl) ==
    [token |-> resp.access_token, user |-> cl.user,
     location |-> dashboardOf(resp.user.role)]

\* Login.handleSubmit / Register.handleSubmit after the awaited response
storeSession(resp, cl) ==
    [token |-> resp.access_token, user |-> resp.user,
     location |-> dashboardOf(resp.user.role)]

\* CreateCourse.handleSubmit after the awaited response
courseCreated(resp, cl) == [cl EXCEPT !.location = "/admin/courses"]

\* Courses.handleEnroll after the awaited response
handleEnroll(resp, cl) == [cl EXCEPT !.location = "/student/my-courses"]

\* the error axios raises when no response arrives: error.response is undefined
networkError ==
    [status |-> 0, message |-> "Network Error", access_token |-> NoToken, user |-> NoUser]

isError(resp) == resp.status >= 400 \/ resp = networkError

\* the client state once the response has passed the interceptor and the
\* try/catch of the submitting page
handleResponse(kind, resp, cl) ==
    IF isError(resp) THEN responseInterceptor(resp, cl)
    ELSE IF kind \in {"login", "register"} THEN storeSession(resp, cl)
    ELSE IF kind = "enroll" THEN handleEnroll(resp, cl)
    ELSE courseCreated(resp, cl)

(***************************************************************************)
(* The state of the mounted page: the form typed, the message shown, the   *)
(* loading flag that disables the submit button, and the calls the page    *)
(* awaits.                                                                 *)
(***************************************************************************)
\* AdminEnrollments adds the list shown, the position of fetchEnrollments
\* (fetch), the courses still to ask for (todo) and the list being built
\* (all); listed, got and listFailed record what the fetches returned.
NoPage == [form |-> NoBody, error |-> "", loading |-> FALSE, pending |-> {},
           enrollments |-> << >>, fetch |-> "none", todo |-> << >>, all |-> << >>,
           listed |-> << >>, got |-> {}, listFailed |-> FALSE]

\* the state a route's page is mounted with: AdminEnrollments starts with
\* loading true and its effect calls fetchEnrollments
mounted(loc) ==
    IF loc = "/admin/enrollments"
    THEN [NoPage EXCEPT !.loading = TRUE, !.fetch = "courses"]
    ELSE NoPage

\* the message of the catch block when the error carries no response
failureText(kind) ==
    CASE kind = "login" -> "Login failed"
      [] kind = "register" -> "Registration failed"
      [] kind = "enroll" -> "Failed to enroll"
      [] OTHER -> "Failed to create course"

\* err.response?.data?.message || the text of the page
errorShown(kind, resp) ==
    IF resp = networkError THEN failureText(kind) ELSE resp.message

\* handleSubmit up to the awaited call: setError(''), setLoading(true);
\* handleEnroll has no form, no error state and no flag
submitting(kind, body, r, pg) ==
    IF kind = "enroll" THEN [pg EXCEPT !.pending = @ \cup {r}]
    ELSE [pg EXCEPT !.form = body, !.error = "", !.loading = TRUE,
                    !.pending = @ \cup {r}]

\* catch and finally of the handler that awaited call r; the setters of a
\* page that is no longer mounted change nothing
settling(kind, resp, r, pg) ==
    IF r \notin pg.pending THEN pg
    ELSE [pg EXCEPT !.error = IF isError(resp) THEN errorShown(kind, resp) ELSE @,
                    !.loading = FALSE,
                    !.pending = @ \ {r}]

(***************************************************************************)
(* AdminEnrollments.fetchEnrollments                                       *)
(***************************************************************************)
RECURSIVE byId(_)
\* the rows of a table as the list a GET endpoint returns
byId(rows) ==
    IF rows = {} THEN << >>
    ELSE LET first == CHOOSE x \in rows : \A y \in rows : x.id <= y.id
         IN <<first>> \o byId(rows \ {first})

\* GET /courses
getCourses == byId(courses)

\* GET /enrollments/course/:courseId
getCourseEnrollments(courseId) == byId({e \in enrollments : e.course = courseId})

\* the statuses a fetch ends with beside 401: success, an error response, no
\* response
FetchStatuses == {200, 404, 0}

\* enrollResponse.data.map(enrollment => ({...enrollment, courseTitle}))
tagged(data, title) ==
    [i \in 1..Len(data) |->
        [id |-> data[i].id, student |-> data[i].student, course |-> data[i].course,
         courseTitle |-> title]]

\* the course list arrives: the loop starts
coursesListed(pg, data) == [pg EXCEPT !.fetch = "each", !.todo = data, !.listed = data]

\* the outer catch and finally
listFailed(pg) ==
    [pg EXCEPT !.error = "Failed to load enrollments", !.loading = FALSE,
               !.fetch = "done", !.listFailed = TRUE]

\* the enrollments of the next course arrive
courseFetched(pg, data) ==
    LET course == Head(pg.todo)
    IN [pg EXCEPT !.all = @ \o tagged(data, course.title), !.todo = Tail(@),
                  !.got = @ \cup {course.id}]

\* a loop without the inner try: the failure reaches the outer catch
courseSkipped_Fails(pg) ==
    [pg EXCEPT !.error = "Failed to load enrollments", !.loading = FALSE,
               !.fetch = "done"]

\* the inner catch: the loop goes on with the next course
courseSkipped(pg) == [pg EXCEPT !.todo = Tail(@)]

\* after the loop: setEnrollments(allEnrollments) and finally
finished(pg) ==
    IF pg.fetch = "each" /\ pg.todo = << >>
    THEN [pg EXCEPT !.enrollments = pg.all, !.loading = FALSE, !.fetch = "done"]
    ELSE pg

\* a logout that leaves the `user` entry behind
handleLogout_KeepsUser(cl) == [token |-> NoToken, user |-> cl.user, location |-> "/login"]

\* Header.handleLogout: the client state after the click
handleLogout(cl) == [token |-> NoToken, user |-> NoUser, location |-> "/login"]

\* the element of the home route, and the useEffect of AdminDashboard and of
\* StudentDashboard: the route the mounted page navigates to, or the page
\* itself
pageEffect(loc, user) ==
    CASE loc = "/" ->
           IF user # NoUser /\ user.role = "admin" THEN "/admin-dashboard"
           ELSE "/student-dashboard"
      [] loc = "/admin-dashboard" /\ user # NoUser /\ user.role # "admin" ->
           "/student-dashboard"
      [] loc = "/student-dashboard" /\ user # NoUser /\ user.role # "student" ->
           "/admin-dashboard"
      [] OTHER -> loc

\* the page a request kind is submitted from
pageOf(kind) ==
    CASE kind = "login" -> "/login"
      [] kind = "register" -> "/register"
      [] kind = "enroll" -> "/student/courses"
      [] OTHER -> "/admin/create-course"

(***************************************************************************)
(* Request bodies and the tokens a caller outside the client can present   *)
(***************************************************************************)
Kinds == {"login", "register", "createCourse", "enroll"}

Bodies(kind) ==
    CASE kind = "login" ->
           {[NoBody EXCEPT !.email = e, !.password = p] : e \in Emails, p \in Passwords}
      [] kind = "register" ->
           {[NoBody EXCEPT !.name = n, !.email = e, !.password = p, !.role = ro] :
               n \in Names, e \in Emails, p \in Passwords, ro \in Roles \cup {NoRole}}
      [] kind = "enroll" -> {[NoBody EXCEPT !.course = c] : c \in 1..MaxCourses}
      [] OTHER -> {[NoBody EXCEPT !.title = t] : t \in Titles}

\* the bodies the forms of the client submit: Register always sends a role,
\* "student" unless "admin" is selected; the one password registered is "pw1"
FormBodies(kind) ==
    {b \in Bodies(kind) : /\ b.role \in {"", "student", "admin"}
                          /\ kind = "register" => b.password = "pw1"}

\* well-formed tokens signed with a key other than the server's
ForgedTokens ==
    {[sub |-> i, email |-> "a@x", role |-> "admin", iat |-> now,
      exp |-> now + TokenTTL, key |-> OtherKey] : i \in 1..MaxUsers}

DirectHeaders ==
    {NoHeader} \cup {[scheme |-> "Bearer", token |-> t] : t \in ForgedTokens \cup {held}}
               \cup {[scheme |-> "Basic", token |-> held]}

\* the headers tried on an endpoint; only the protected ones read the header
HeadersOf(kind) ==
    CASE kind = "createCourse" -> DirectHeaders
      [] kind \in {"enroll", "unenroll"} -> {NoHeader, [scheme |-> "Bearer", token |-> held]}
      [] OTHER -> {NoHeader}

Init ==
    /\ users = {}
    /\ nextUserId = 1
    /\ courses = {}
    /\ nextCourseId = 1
    /\ enrollments = {}
    /\ nextEnrollmentId = 1
    /\ now = 0
    /\ reqs = [r \in ReqIds |-> Idle]
    /\ lsToken = NoToken
    /\ lsUser = NoUser
    /\ location = "/login"
    /\ last = NoLast
    /\ held = NoToken
    /\ loggedOut = NoToken
    /\ page = NoPage
    /\ stale = {}
    /\ order = << >>
    /\ late = FALSE

(***************************************************************************)
(* Sending a request. The slots are interchangeable: "r2" is taken only    *)
(* while "r1" is busy.                                                     *)
(***************************************************************************)
free(r) ==
    /\ reqs[r].pc = "idle"
    /\ r = "r2" => reqs["r1"].pc # "idle"

Send(r, kind, body, viaApi, header) ==
    reqs' = [reqs EXCEPT ![r] =
                [kind |-> kind, pc |-> "recv", viaApi |-> viaApi, auth |-> header,
                 body |-> body, user |-> NoUser, resp |-> NoResp, stages |-> << >>]]

\* a page of the client submits through the api instance
ClientSend(r, kind) ==
    /\ free(r)
    /\ location = pageOf(kind)
    /\ ~page.loading
    /\ \E body \in FormBodies(kind) :
          /\ Send(r, kind, body, TRUE, requestInterceptor(lsToken))
          /\ page' = submitting(kind, body, r, page)
    /\ order' = Append(order, r)
    /\ UNCHANGED <<server, client, now, held, loggedOut, stale, late>>

\* any other HTTP caller; the header matters to the protected endpoint only
DirectSend(r, kind, bodies) ==
    /\ free(r)
    /\ \E body \in bodies :
       \E h \in HeadersOf(kind) :
          Send(r, kind, body, FALSE, h)
    /\ UNCHANGED <<server, client, now, held, loggedOut, page, stale, order, late>>

(***************************************************************************)
(* POST /auth/register: the check, then the insert                         *)
(***************************************************************************)
RegisterCheck(r) ==
    /\ reqs[r].kind = "register" /\ reqs[r].pc = "recv"
    /\ reqs' = [reqs EXCEPT ![r] =
                  IF findByEmail(reqs[r].body.email) # {}
                  THEN [@ EXCEPT !.pc = "done", !.resp = emailExists]
                  ELSE [@ EXCEPT !.pc = "create"]]
    /\ UNCHANGED <<server, client, now, held, loggedOut, page, stale, order, late>>

RegisterCreate(r) ==
    /\ reqs[r].kind = "register" /\ reqs[r].pc = "create"
    /\ uniqueViolation(reqs[r].body.email) \/ nextUserId <= MaxUsers
    /\ \E salt \in Salts :
         LET dto == [reqs[r].body EXCEPT !.role = roleOrDefault(@)]
             user == newUser(dto, salt)
         IN IF uniqueViolation(dto.email)
            THEN /\ reqs' = [reqs EXCEPT ![r].pc = "done", ![r].resp = queryFailed]
                 /\ UNCHANGED <<users, nextUserId>>
            ELSE /\ users' = users \cup {user}
                 /\ nextUserId' = nextUserId + 1
                 /\ reqs' = [reqs EXCEPT ![r].pc = "done", ![r].resp = login(user, now)]
    /\ UNCHANGED <<courses, nextCourseId, enrollments, nextEnrollmentId, client, now, held, loggedOut, page, stale, order, late>>

(***************************************************************************)
(* POST /auth/login                                                        *)
(***************************************************************************)
\* a login that hashes the password anew, with a fresh salt, when it matches
Login_Rehash(r) ==
    /\ reqs[r].kind = "login" /\ reqs[r].pc = "recv"
    /\ reqs' = [reqs EXCEPT ![r].pc = "done",
                            ![r].resp = validateUser(reqs[r].body.email,
                                                     reqs[r].body.password, now)]
    /\ users' = {IF u.email = reqs[r].body.email
                    /\ validatePassword(u, reqs[r].body.password)
                 THEN [u EXCEPT !.password = bcryptHash(reqs[r].body.password, "s2")]
                 ELSE u : u \in users}
    /\ UNCHANGED <<nextUserId, courses, nextCourseId, enrollments, nextEnrollmentId,
                   client, now, held, loggedOut, page, stale, order, late>>

Login(r) ==
    /\ reqs[r].kind = "login" /\ reqs[r].pc = "recv"
    /\ reqs' = [reqs EXCEPT ![r].pc = "done",
                            ![r].resp = validateUser(reqs[r].body.email,
                                                     reqs[r].body.password, now)]
    /\ UNCHANGED <<server, client, now, held, loggedOut, page, stale, order, late>>

(***************************************************************************)
(* POST /courses                                                           *)
(***************************************************************************)
CreateCourse(r) ==
    /\ reqs[r].kind = "createCourse" /\ reqs[r].pc = "recv"
    /\ LET out == postCourses(reqs[r].auth, reqs[r].body, now) IN
       /\ out.course # NoCourse => nextCourseId <= MaxCourses
       /\ reqs' = [reqs EXCEPT ![r].pc = "done", ![r].resp = out.resp,
                               ![r].user = out.user, ![r].stages = out.stages]
       /\ IF out.course = NoCourse
          THEN UNCHANGED <<courses, nextCourseId>>
          ELSE /\ courses' = courses \cup {out.course}
               /\ nextCourseId' = nextCourseId + 1
    /\ UNCHANGED <<users, nextUserId, enrollments, nextEnrollmentId, client, now, held, loggedOut, page, stale, order, late>>

(***************************************************************************)
(* POST /enrollments/course/:courseId: the guard and the reads, then the   *)
(* insert                                                                  *)
(***************************************************************************)
EnrollCheck(r) ==
    /\ reqs[r].kind = "enroll" /\ reqs[r].pc = "recv"
    /\ LET g == JwtAuthGuard(reqs[r].auth, now)
           resp == IF g.user = NoUser THEN g.resp
                   ELSE enroll(g.user.id, reqs[r].body.course)
       IN reqs' = [reqs EXCEPT ![r] =
                     IF resp # NoResp
                     THEN [@ EXCEPT !.pc = "done", !.resp = resp, !.user = g.user,
                                    !.stages = g.stages]
                     ELSE [@ EXCEPT !.pc = "create", !.user = g.user,
                                    !.stages = g.stages]]
    /\ UNCHANGED <<server, client, now, held, loggedOut, page, stale, order, late>>

\* enrollmentsRepo.save; the foreign keys reject a student or a course that
\* is no longer stored
EnrollSave(r) ==
    /\ reqs[r].kind = "enroll" /\ reqs[r].pc = "create"
    /\ LET e == newEnrollment(reqs[r].user.id, reqs[r].body.course) IN
       IF findOne(e.student) = {} \/ findCourse(e.course) = {}
       THEN /\ reqs' = [reqs EXCEPT ![r].pc = "done", ![r].resp = queryFailed]
            /\ UNCHANGED <<enrollments, nextEnrollmentId>>
       ELSE /\ nextEnrollmentId <= MaxEnrollments
            /\ enrollments' = enrollments \cup {e}
            /\ nextEnrollmentId' = nextEnrollmentId + 1
            /\ reqs' = [reqs EXCEPT ![r].pc = "done", ![r].resp = enrolled]
    /\ UNCHANGED <<users, nextUserId, courses, nextCourseId, client, now, held, loggedOut, page, stale, order, late>>

\* DELETE /enrollments/course/:courseId behind the guard: the enrollments of
\* the caller in the course are removed
Unenroll(r) ==
    /\ reqs[r].kind = "unenroll" /\ reqs[r].pc = "recv"
    /\ LET g == JwtAuthGuard(reqs[r].auth, now) IN
       IF g.user = NoUser
       THEN /\ reqs' = [reqs EXCEPT ![r].pc = "done", ![r].resp = g.resp,
                                     ![r].stages = g.stages]
            /\ UNCHANGED enrollments
       ELSE /\ enrollments' = enrollments \ existing(g.user.id, reqs[r].body.course)
            /\ reqs' = [reqs EXCEPT ![r].pc = "done", ![r].resp = unenrolled,
                                     ![r].user = g.user, ![r].stages = g.stages]
    /\ UNCHANGED <<users, nextUserId, courses, nextCourseId, nextEnrollmentId,
                   client, now, held, loggedOut, page, stale, order, late>>

(***************************************************************************)
(* The response reaches its caller                                         *)
(***************************************************************************)
\* window.location.href = '/login' loads the page anew: the calls still in
\* flight lose their caller
abandoned(req) == IF req.viaApi THEN [req EXCEPT !.viaApi = FALSE] ELSE req

\* the call fails with no response: the server is not reached, or its
\* response is lost
NetworkError(r) ==
    /\ reqs[r].pc \in {"recv", "done"} /\ reqs[r].viaApi
    /\ reqs' = [reqs EXCEPT ![r].pc = "lost", ![r].resp = networkError]
    /\ UNCHANGED <<server, client, now, held, loggedOut, page, stale, order, late>>

\* the calls of the client still awaited that were sent before call r
sentBefore(r) ==
    {order[i] : i \in {i \in 1..Len(order) : \E j \in (i + 1)..Len(order) : order[j] = r}}

\* the awaited call settles in the submitting page; a navigate of the page
\* goes through the route's ProtectedRoute
ClientReceive(r) ==
    /\ reqs[r].pc \in {"done", "lost"} /\ reqs[r].viaApi
    /\ LET cl == handleResponse(reqs[r].kind, reqs[r].resp,
                                [token |-> lsToken, user |-> lsUser,
                                 location |-> location])
       IN /\ lsToken' = cl.token
          /\ lsUser' = cl.user
          /\ location' = ProtectedRoute(cl.location, cl.token)
    /\ last' = [kind |-> reqs[r].kind, status |-> reqs[r].resp.status]
    /\ reqs' = [x \in ReqIds |->
                  IF x = r THEN Idle
                  ELSE IF reqs[r].resp.status = 401 THEN abandoned(reqs[x])
                  ELSE reqs[x]]
    /\ page' = IF reqs[r].resp.status = 401 \/ location' # location THEN NoPage
               ELSE settling(reqs[r].kind, reqs[r].resp, r, page)
    /\ stale' = IF reqs[r].resp.status = 401 THEN {}
                ELSE IF ~isError(reqs[r].resp) /\ reqs[r].kind \in {"login", "register"}
                THEN sentBefore(r)
                ELSE stale \ {r}
    /\ order' = IF reqs[r].resp.status = 401 THEN << >>
                ELSE SelectSeq(order, LAMBDA x : x # r)
    /\ late' = IF reqs[r].resp.status = 401
               THEN /\ r \in stale /\ lsToken # NoToken
                    /\ last = [kind |-> "login", status |-> 201]
               ELSE IF ~isError(reqs[r].resp) /\ reqs[r].kind \in {"login", "register"}
               THEN FALSE
               ELSE late
    /\ UNCHANGED <<server, now, held, loggedOut>>

\* a caller outside the client gets its response, and may keep the token
DirectReceive(r, keep) ==
    /\ reqs[r].pc = "done" /\ ~reqs[r].viaApi
    /\ keep => reqs[r].resp.access_token # NoToken
    /\ held' = IF keep THEN reqs[r].resp.access_token ELSE held
    /\ reqs' = [reqs EXCEPT ![r] = Idle]
    /\ UNCHANGED <<server, client, now, loggedOut, page, stale, order, late>>

(***************************************************************************)
(* The rest of the client, the user administration and the clock           *)
(***************************************************************************)
\* the user follows a link to a route of the application
Navigate(loc) ==
    /\ loc \in Locations
    /\ location' = ProtectedRoute(loc, lsToken)
    /\ location' # location
    /\ page' = mounted(location')
    /\ UNCHANGED <<server, lsToken, lsUser, last, now, reqs, held, loggedOut, stale, order, late>>

\* the effect of a mounted dashboard page
Effect ==
    /\ location' = ProtectedRoute(pageEffect(location, lsUser), lsToken)
    /\ location' # location
    /\ page' = NoPage
    /\ UNCHANGED <<server, lsToken, lsUser, last, now, reqs, held, loggedOut, stale, order, late>>

\* a fetch of the mounted page is answered with 401: the response interceptor
\* empties the storage and loads /login
fetchUnauthorized ==
    /\ LET cl == responseInterceptor(unauthorized,
                                     [token |-> lsToken, user |-> lsUser,
                                      location |-> location])
       IN /\ lsToken' = cl.token
          /\ lsUser' = cl.user
          /\ location' = ProtectedRoute(cl.location, cl.token)
    /\ last' = [kind |-> "fetch", status |-> 401]
    /\ reqs' = [x \in ReqIds |-> abandoned(reqs[x])]
    /\ page' = NoPage
    /\ stale' = {}
    /\ order' = << >>
    /\ late' = FALSE
    /\ UNCHANGED <<server, now, held, loggedOut>>

\* a fetch of the mounted page is answered otherwise
fetchAnswered(status, pg) ==
    /\ page' = pg
    /\ last' = [kind |-> "fetch", status |-> status]
    /\ UNCHANGED <<server, lsToken, lsUser, location, now, reqs, held, loggedOut,
                   stale, order, late>>

\* fetchEnrollments: await api.get('/courses')
FetchCourses(status) ==
    /\ location = "/admin/enrollments" /\ page.fetch = "courses"
    /\ IF JwtAuthGuard(requestInterceptor(lsToken), now).user = NoUser
       THEN fetchUnauthorized
       ELSE fetchAnswered(status, IF status = 200
                                  THEN finished(coursesListed(page, getCourses))
                                  ELSE listFailed(page))

\* fetchEnrollments: await api.get of the enrollments of the next course
FetchCourseEnrollments(status) ==
    /\ location = "/admin/enrollments" /\ page.fetch = "each"
    /\ IF JwtAuthGuard(requestInterceptor(lsToken), now).user = NoUser
       THEN fetchUnauthorized
       ELSE fetchAnswered(status,
               finished(IF status = 200
                        THEN courseFetched(page, getCourseEnrollments(Head(page.todo).id))
                        ELSE courseSkipped(page)))

\* the `user` entry is edited in the browser, and the page loaded again
EditUserEntry(role) ==
    /\ lsUser # NoUser /\ lsUser.role # role
    /\ lsUser' = [lsUser EXCEPT !.role = role]
    /\ UNCHANGED <<server, lsToken, location, last, now, reqs, held, loggedOut, page, stale, order, late>>

\* the header button of a page under ProtectedRoute
Logout ==
    /\ location \notin PublicLocations
    /\ LET cl == handleLogout([token |-> lsToken, user |-> lsUser,
                               location |-> location])
       IN /\ lsToken' = cl.token
          /\ lsUser' = cl.user
          /\ location' = cl.location
    /\ loggedOut' = lsToken
    /\ page' = NoPage
    /\ late' = FALSE
    /\ UNCHANGED <<server, last, now, reqs, held, stale, order>>

\* a caller presents the token of the session that was logged out
ReplaySend(r) ==
    /\ free(r)
    /\ loggedOut # NoToken
    /\ \E body \in Bodies("createCourse") :
          Send(r, "createCourse", body, FALSE, [scheme |-> "Bearer", token |-> loggedOut])
    /\ UNCHANGED <<server, client, now, held, loggedOut, page, stale, order, late>>

\* PATCH /users/{id} with a role
UpdateRole(id, role) ==
    /\ \E u \in users :
          /\ u.id = id /\ u.role # role
          /\ users' = (users \ {u}) \cup {[u EXCEPT !.role = role]}
    /\ UNCHANGED <<nextUserId, courses, nextCourseId, enrollments, nextEnrollmentId,
                   client, now, reqs, held, loggedOut, page, stale, order, late>>

\* DELETE /users/{id}; the foreign keys of a course and of an enrollment keep
\* the user they name
DeleteUser(id) ==
    /\ \E u \in users :
          /\ u.id = id
          /\ \A c \in courses : c.instructor # id
          /\ \A e \in enrollments : e.student # id
          /\ users' = users \ {u}
    /\ UNCHANGED <<nextUserId, courses, nextCourseId, enrollments, nextEnrollmentId,
                   client, now, reqs, held, loggedOut, page, stale, order, late>>

Tick ==
    /\ now < MaxTime
    /\ now' = now + 1
    /\ UNCHANGED <<server, client, reqs, held, loggedOut, page, stale, order, late>>

(***************************************************************************)
(* The whole system                                                        *)
(***************************************************************************)
Next ==
    \/ \E r \in ReqIds, kind \in Kinds : ClientSend(r, kind)
    \/ \E r \in ReqIds, kind \in Kinds : DirectSend(r, kind, Bodies(kind))
    \/ \E r \in ReqIds : RegisterCheck(r)
    \/ \E r \in ReqIds : RegisterCreate(r)
    \/ \E r \in ReqIds : Login(r)
    \/ \E r \in ReqIds : CreateCourse(r)
    \/ \E r \in ReqIds : EnrollCheck(r)
    \/ \E r \in ReqIds : EnrollSave(r)
    \/ \E r \in ReqIds : DirectSend(r, "unenroll", Bodies("enroll"))
    \/ \E r \in ReqIds : Unenroll(r)
    \/ \E r \in ReqIds : NetworkError(r)
    \/ \E r \in ReqIds : ClientReceive(r)
    \/ Effect
    \/ \E role \in Roles : EditUserEntry(role)
    \/ \E r \in ReqIds, keep \in BOOLEAN : DirectReceive(r, keep)
    \/ \E loc \in Locations : Navigate(loc)
    \/ Logout
    \/ \E r \in ReqIds : ReplaySend(r)
    \/ \E status \in FetchStatuses : FetchCourses(status)
    \/ \E status \in FetchStatuses : FetchCourseEnrollments(status)
    \/ \E id \in 1..MaxUsers, role \in Roles : UpdateRole(id, role)
    \/ \E id \in 1..MaxUsers : DeleteUser(id)
    \/ Tick

Spec == Init /\ [][Next]_vars

(***************************************************************************)
(* The credential issuer alone: registrations and logins of callers that   *)
(* may overlap in time, over a user store that also loses users.           *)
(***************************************************************************)
NextIssuer ==
    \/ \E r \in ReqIds, kind \in {"login", "register"} :
          DirectSend(r, kind, Bodies(kind))
    \/ \E r \in ReqIds : RegisterCheck(r)
    \/ \E r \in ReqIds : RegisterCreate(r)
    \/ \E r \in ReqIds : Login(r)
    \/ \E r \in ReqIds : DirectReceive(r, FALSE)
    \/ \E id \in 1..MaxUsers : DeleteUser(id)

SpecIssuer == Init /\ [][NextIssuer]_vars

(***************************************************************************)
(* The access gate: one request at a time from a caller that keeps the     *)
(* tokens it was issued and forges others, while roles change, users are   *)
(* deleted and time passes.                                                *)
(***************************************************************************)
GateBodies(kind) ==
    {b \in Bodies(kind) : b.password \in {"", "pw1"} /\ b.role \in {"", NoRole, "admin"}}

NextGate ==
    \/ \E kind \in {"login", "register", "createCourse"} :
          DirectSend("r1", kind, GateBodies(kind))
    \/ RegisterCheck("r1")
    \/ RegisterCreate("r1")
    \/ Login("r1")
    \/ CreateCourse("r1")
    \/ \E keep \in BOOLEAN : DirectReceive("r1", keep)
    \/ \E id \in 1..MaxUsers, role \in Roles : UpdateRole(id, role)
    \/ \E id \in 1..MaxUsers : DeleteUser(id)
    \/ Tick

SpecGate == Init /\ [][NextGate]_vars

(***************************************************************************)
(* The client: one browser tab whose pages call the server through the api *)
(* instance, one call at a time.                                           *)
(***************************************************************************)
ClientLocations == {"/login", "/register", "/admin-dashboard", "/student-dashboard",
                    "/admin/create-course", "/admin/courses"}

NextClient ==
    \/ \E kind \in {"login", "register", "createCourse"} : ClientSend("r1", kind)
    \/ RegisterCheck("r1")
    \/ RegisterCreate("r1")
    \/ Login("r1")
    \/ CreateCourse("r1")
    \/ ClientReceive("r1")
    \/ Effect
    \/ \E loc \in ClientLocations : Navigate(loc)
    \/ Logout
    \/ Tick

SpecClient == Init /\ [][NextClient]_vars

(***************************************************************************)
(* The forms of the client: every page that submits, the enroll button     *)
(* included, with calls that fail on the server or on the way.             *)
(***************************************************************************)
FormLocations == {"/login", "/register", "/admin-dashboard", "/admin/create-course",
                  "/student/courses"}

NextForms ==
    \/ \E kind \in Kinds : ClientSend("r1", kind)
    \/ RegisterCheck("r1")
    \/ RegisterCreate("r1")
    \/ Login("r1")
    \/ CreateCourse("r1")
    \/ EnrollCheck("r1")
    \/ EnrollSave("r1")
    \/ NetworkError("r1")
    \/ ClientReceive("r1")
    \/ Effect
    \/ \E loc \in FormLocations : Navigate(loc)

SpecForms == Init /\ [][NextForms]_vars

(***************************************************************************)
(* The pages: one browser tab that registers, logs in and out and follows  *)
(* links to every route, beside registrations made directly against the   *)
(* API, with another role or with none.                                    *)
(***************************************************************************)
ApiBodies ==
    {b \in Bodies("register") : b.password = "pw1" /\ b.role \in {NoRole, "instructor"}}

NextPages ==
    \/ \E kind \in {"login", "register"} : ClientSend("r1", kind)
    \/ DirectSend("r1", "register", ApiBodies)
    \/ RegisterCheck("r1")
    \/ RegisterCreate("r1")
    \/ Login("r1")
    \/ ClientReceive("r1")
    \/ DirectReceive("r1", FALSE)
    \/ Effect
    \/ \E loc \in Locations : Navigate(loc)
    \/ Logout

SpecPages == Init /\ [][NextPages]_vars

(***************************************************************************)
(* The snapshot: a client whose `user` entry is edited in the browser      *)
(* between its calls.                                                      *)
(***************************************************************************)
NextSnapshot ==
    \/ \E kind \in {"login", "register", "createCourse"} : ClientSend("r1", kind)
    \/ RegisterCheck("r1")
    \/ RegisterCreate("r1")
    \/ Login("r1")
    \/ CreateCourse("r1")
    \/ ClientReceive("r1")
    \/ \E role \in Roles : EditUserEntry(role)
    \/ Effect
    \/ \E loc \in ClientLocations : Navigate(loc)
    \/ Tick

SpecSnapshot == Init /\ [][NextSnapshot]_vars

(***************************************************************************)
(* The enrollments: callers that register, create a course and enroll with *)
(* the token they keep; two enroll requests may overlap in time.           *)
(***************************************************************************)
EnrollBodies ==
    {b \in Bodies("register") : b.password = "pw1" /\ b.role \in {NoRole, "admin"}}

NextEnroll ==
    \/ DirectSend("r1", "register", EnrollBodies)
    \/ DirectSend("r1", "createCourse", Bodies("createCourse"))
    \/ \E r \in ReqIds : DirectSend(r, "enroll", Bodies("enroll"))
    \/ RegisterCheck("r1")
    \/ RegisterCreate("r1")
    \/ CreateCourse("r1")
    \/ \E r \in ReqIds : EnrollCheck(r)
    \/ \E r \in ReqIds : EnrollSave(r)
    \/ DirectSend("r1", "unenroll", Bodies("enroll"))
    \/ Unenroll("r1")
    \/ \E r \in ReqIds, keep \in BOOLEAN : DirectReceive(r, keep)

SpecEnroll == Init /\ [][NextEnroll]_vars

(***************************************************************************)
(* The logged-out token: a client that logs in and out, and a caller that  *)
(* presents the token of the ended session, while users are deleted and    *)
(* time passes.                                                            *)
(***************************************************************************)
NextRevocation ==
    \/ \E kind \in {"login", "register"} : ClientSend("r1", kind)
    \/ ReplaySend("r1")
    \/ RegisterCheck("r1")
    \/ RegisterCreate("r1")
    \/ Login("r1")
    \/ CreateCourse("r1")
    \/ ClientReceive("r1")
    \/ DirectReceive("r1", FALSE)
    \/ \E loc \in PublicLocations : Navigate(loc)
    \/ Logout
    \/ \E id \in 1..MaxUsers : DeleteUser(id)
    \/ Tick

SpecRevocation == Init /\ [][NextRevocation]_vars

(***************************************************************************)
(* The overlapping calls: one browser tab whose Login and Register pages   *)
(* link to each other and leave a call awaited when the user moves on, so  *)
(* that two calls of the client are in flight and their responses arrive   *)
(* in either order.                                                        *)
(***************************************************************************)
NextOverlap ==
    \/ \E r \in ReqIds, kind \in {"login", "register"} : ClientSend(r, kind)
    \/ \E r \in ReqIds : RegisterCheck(r)
    \/ \E r \in ReqIds : RegisterCreate(r)
    \/ \E r \in ReqIds : Login(r)
    \/ \E r \in ReqIds : ClientReceive(r)
    \/ \E r \in ReqIds : DirectReceive(r, FALSE)
    \/ \E loc \in PublicLocations : location \in PublicLocations /\ Navigate(loc)
    \/ Logout

SpecOverlap == Init /\ [][NextOverlap]_vars

(***************************************************************************)
(* The enrollments page: an admin is logged in and has opened              *)
(* /admin/enrollments; the tables hold up to MaxListed courses and the     *)
(* enrollments of two users in them. The fetches succeed or fail, the      *)
(* token expires, the admin leaves the page, comes back or logs out.       *)
(***************************************************************************)
ListedTitles == {"t1", "t2"}

listedAdmin ==
    [id |-> 1, name |-> "n1", email |-> "a@x", password |-> bcryptHash("pw1", "s1"),
     role |-> "admin"]

listedStudent ==
    [id |-> 2, name |-> "n1", email |-> "b@x", password |-> bcryptHash("pw1", "s1"),
     role |-> "student"]

InitListing ==
    /\ users = {listedAdmin, listedStudent}
    /\ nextUserId = 3
    /\ courses \in UNION {{{[id |-> i, title |-> f[i], instructor |-> 1] : i \in 1..k} :
                               f \in [1..k -> ListedTitles]} : k \in 0..MaxListed}
    /\ nextCourseId = Cardinality(courses) + 1
    /\ enrollments \in SUBSET {[id |-> 2 * (c - 1) + st, student |-> st, course |-> c] :
                                  c \in 1..Cardinality(courses), st \in 1..2}
    /\ nextEnrollmentId = 2 * Cardinality(courses) + 1
    /\ now = 0
    /\ reqs = [r \in ReqIds |-> Idle]
    /\ lsToken = login(listedAdmin, 0).access_token
    /\ lsUser = login(listedAdmin, 0).user
    /\ location = "/admin/enrollments"
    /\ last = [kind |-> "login", status |-> 201]
    /\ held = NoToken
    /\ loggedOut = NoToken
    /\ page = mounted("/admin/enrollments")
    /\ stale = {}
    /\ order = << >>
    /\ late = FALSE

NextListing ==
    \/ \E status \in FetchStatuses : FetchCourses(status)
    \/ \E status \in FetchStatuses : FetchCourseEnrollments(status)
    \/ \E loc \in {"/admin/enrollments", "/admin/courses"} : Navigate(loc)
    \/ Logout
    \/ Tick

SpecListing == InitListing /\ [][NextListing]_vars

(***************************************************************************)
(* Properties of the credential issuer                                     *)
(***************************************************************************)
\* the request in slot r is answered in this step
answered(r, kind) ==
    /\ reqs[r].kind = kind
    /\ reqs[r].pc # "done"
    /\ reqs'[r].pc = "done"

\* pw is the password the stored hash of u was made from
isPasswordOf(pw, u) == \E salt \in Salts : u.password = bcryptHash(pw, salt)

\* C1: a login with the email and the correct password of a registered user
\* succeeds, and the token it returns carries that user's stored id as sub,
\* and that user's stored email and role.
C1_LoginTokenNamesStoredUser ==
    [][\A r \in ReqIds : \A u \in users :
          (/\ answered(r, "login")
           /\ u.email = reqs[r].body.email
           /\ isPasswordOf(reqs[r].body.password, u))
          => /\ reqs'[r].resp.status = 201
             /\ reqs'[r].resp.access_token.key = ServerKey
             /\ reqs'[r].resp.access_token.sub = u.id
             /\ reqs'[r].resp.access_token.email = u.email
             /\ reqs'[r].resp.access_token.role = u.role]_vars

\* a login was answered with a token for the stored user of its email
C1_Witness ==
    \E r \in ReqIds : \E u \in users :
       /\ reqs[r].kind = "login" /\ reqs[r].pc = "done"
       /\ reqs[r].resp.status = 201
       /\ u.email = reqs[r].body.email
       /\ u.id = reqs[r].resp.access_token.sub
       /\ u.id = MaxUsers

\* C2: a login with a known email and a wrong password and a login with an
\* email of no user get the same response: status 401, the same message,
\* nothing else.
C2_LoginFailuresAlike ==
    [][\A r \in ReqIds :
          (/\ answered(r, "login")
           /\ ~\E u \in users : /\ u.email = reqs[r].body.email
                                 /\ isPasswordOf(reqs[r].body.password, u))
          => reqs'[r].resp = [status |-> 401, message |-> "Invalid credentials",
                              access_token |-> NoToken, user |-> NoUser]]_vars

\* both failures are in flight at once, with equal responses
C2_Witness ==
    \E r, q \in ReqIds :
       /\ reqs[r].kind = "login" /\ reqs[r].pc = "done"
       /\ reqs[q].kind = "login" /\ reqs[q].pc = "done"
       /\ \A u \in users : u.email # reqs[r].body.email
       /\ \E u \in users : /\ u.email = reqs[q].body.email
                            /\ ~isPasswordOf(reqs[q].body.password, u)
       /\ reqs[r].resp.status = 401
       /\ reqs[r].resp = reqs[q].resp

\* C4: a registration with an email that is already registered fails with
\* Conflict, status 409, creates no user and leaves the stored users as they
\* were.
C4_DuplicateEmailIsConflict ==
    [][\A r \in ReqIds :
          (/\ answered(r, "register")
           /\ \E u \in users : u.email = reqs[r].body.email)
          => /\ reqs'[r].resp.status = 409
             /\ users' = users]_vars

\* C10: no two stored users have the same email, also when two registrations
\* with one email overlap in time.
C10_EmailsUnique ==
    \A u, v \in users : u.email = v.email => u = v

\* two registrations with one email overlapped: both passed the check, and the
\* insert of the second was rejected
C10_Witness ==
    \E r, q \in ReqIds : \E u \in users :
       /\ r # q
       /\ reqs[r].kind = "register" /\ reqs[r].pc = "done"
       /\ reqs[q].kind = "register" /\ reqs[q].pc = "done"
       /\ reqs[r].body.email = reqs[q].body.email
       /\ u.email = reqs[r].body.email
       /\ reqs[r].resp.status = 201
       /\ reqs[q].resp = queryFailed

(***************************************************************************)
(* Properties of the access gate and of the course creation                *)
(***************************************************************************)
\* the bearer token of the request in slot r, NoToken without one
bearer(r) == IF reqs[r].auth.scheme = "Bearer" THEN reqs[r].auth.token ELSE NoToken

\* signed with the server's key and not yet expired
genuine(token) == token.key = ServerKey /\ now < token.exp

StageOrder == <<"extract", "verify", "lookup", "roleCheck">>

\* C3: a request with a well-formed token that was signed with another key, or
\* whose expiry has passed, is answered 401 by the gate whatever its claims
\* are: no principal is attached, the controller's role check is not run and
\* no course is created.
C3_BadTokenRejected ==
    [][\A r \in ReqIds :
          (/\ answered(r, "createCourse")
           /\ bearer(r) # NoToken
           /\ (bearer(r).key # ServerKey \/ now >= bearer(r).exp))
          => /\ reqs'[r].resp.status = 401
             /\ reqs'[r].user = NoUser
             /\ \A i \in 1..Len(reqs'[r].stages) : reqs'[r].stages[i] # "roleCheck"
             /\ courses' = courses]_vars

\* a token the server issued to a user who is still stored as admin was
\* rejected after its expiry
C3_Witness ==
    \E r \in ReqIds : \E u \in users :
       /\ reqs[r].kind = "createCourse" /\ reqs[r].pc = "done"
       /\ bearer(r).key = ServerKey
       /\ bearer(r).exp <= now
       /\ u.id = bearer(r).sub /\ u.role = "admin"
       /\ reqs[r].resp.status = 401

\* C5: POST /courses with a valid token of a user whose stored role is
\* student is answered 403 and creates no course; with a valid token of a
\* user whose stored role is admin it succeeds and adds exactly the course
\* with the submitted title and that admin as instructor.
C5_AdminOnlyCreate ==
    [][\A r \in ReqIds : \A u \in users :
          (/\ answered(r, "createCourse")
           /\ genuine(bearer(r))
           /\ u.id = bearer(r).sub)
          => /\ u.role = "student" =>
                  /\ reqs'[r].resp.status = 403
                  /\ courses' = courses
             /\ u.role = "admin" =>
                  /\ reqs'[r].resp.status = 201
                  /\ courses' = courses \cup
                        {[id |-> nextCourseId, title |-> reqs[r].body.title,
                          instructor |-> u.id]}
                  /\ courses' # courses]_vars

\* a course of an admin exists, and a student has just been refused
C5_Witness ==
    \E r \in ReqIds : \E c \in courses :
       /\ reqs[r].kind = "createCourse" /\ reqs[r].pc = "done"
       /\ reqs[r].resp.status = 403
       /\ reqs[r].user.role = "student"
       /\ c.instructor # reqs[r].user.id

\* C7: a protected request runs token extraction, token verification,
\* principal lookup and role check in this order and stops at the first that
\* fails; it ends 401 exactly when the token is missing, invalid, expired or
\* its principal is not found, and then no role check was run; it ends 403
\* only when the principal was resolved and the role check failed.
C7_GateOrder ==
    [][\A r \in ReqIds :
          answered(r, "createCourse") =>
             LET st == reqs'[r].stages
                 status == reqs'[r].resp.status
                 resolved == genuine(bearer(r)) /\ findOne(bearer(r).sub) # {}
             IN /\ Len(st) \in 1..4
                /\ st = SubSeq(StageOrder, 1, Len(st))
                /\ status = 401 <=> ~resolved
                /\ status = 401 =>
                      /\ Len(st) < 4
                      /\ Len(st) = 1 <=> bearer(r) = NoToken
                      /\ Len(st) = 3 <=> genuine(bearer(r))
                /\ status = 403 =>
                      /\ resolved
                      /\ Len(st) = 4
                      /\ reqs'[r].user # NoUser
                      /\ reqs'[r].user.role # "admin"]_vars

\* a request of a resolved principal ended 403 after all four stages
C7_Witness ==
    \E r \in ReqIds :
       /\ reqs[r].kind = "createCourse" /\ reqs[r].pc = "done"
       /\ reqs[r].resp.status = 403
       /\ reqs[r].stages = StageOrder

\* C8: the role the gate attaches, and the outcome of the role check, are
\* those of the role stored for the token's subject when the request is
\* handled, whatever role the token carries.
C8_StoredRoleDecides ==
    [][\A r \in ReqIds : \A u \in users :
          (/\ answered(r, "createCourse")
           /\ genuine(bearer(r))
           /\ u.id = bearer(r).sub)
          => /\ reqs'[r].user.id = u.id
             /\ reqs'[r].user.role = u.role
             /\ reqs'[r].resp.status = IF u.role = "admin" THEN 201 ELSE 403]_vars

\* a token issued to an admin was refused after the user's role was changed
C8_Witness ==
    \E r \in ReqIds :
       /\ reqs[r].kind = "createCourse" /\ reqs[r].pc = "done"
       /\ bearer(r).role = "admin"
       /\ bearer(r).key = ServerKey
       /\ reqs[r].user.role = "student"
       /\ reqs[r].resp.status = 403

\* C9: a request with a token that is signed by the server and not expired,
\* but whose user is no longer stored, is answered 401.
C9_VanishedUserRejected ==
    [][\A r \in ReqIds :
          (/\ answered(r, "createCourse")
           /\ genuine(bearer(r))
           /\ \A u \in users : u.id # bearer(r).sub)
          => /\ reqs'[r].resp.status = 401
             /\ reqs'[r].user = NoUser
             /\ courses' = courses]_vars

\* the token of a deleted user was rejected while it was still unexpired
C9_Witness ==
    \E r \in ReqIds :
       /\ reqs[r].kind = "createCourse" /\ reqs[r].pc = "done"
       /\ genuine(bearer(r))
       /\ bearer(r).sub < nextUserId
       /\ \A u \in users : u.id # bearer(r).sub
       /\ reqs[r].resp.status = 401
       /\ reqs[r].stages = <<"extract", "verify", "lookup">>

UserViewFields == {"id", "name", "email", "role"}

ClaimFields == {"sub", "email", "role", "iat", "exp", "key"}

\* C11: the password stored for a user is the one-way hash of the password
\* submitted at registration, never the submitted value itself, and neither
\* the token claims nor the user object of a register or login response has a
\* password field or carries the password.
C11_PasswordOnlyHashed ==
    [][/\ \A u \in users' : \E pw \in Passwords : isPasswordOf(pw, u)
       /\ \A r \in ReqIds :
             (answered(r, "register") \/ answered(r, "login")) =>
                /\ \A u \in users' \ users : isPasswordOf(reqs[r].body.password, u)
                /\ DOMAIN reqs'[r].resp.user = UserViewFields
                /\ DOMAIN reqs'[r].resp.access_token = ClaimFields
                /\ \A f \in {"name", "email", "role"} :
                      /\ reqs'[r].resp.user[f] \notin Passwords
                      /\ f # "name" => reqs'[r].resp.access_token[f] \notin Passwords]_vars

\* a registration was answered with a token, and the user it created holds
\* the hash of the second password
C11_Witness ==
    \E r \in ReqIds : \E u \in users :
       /\ reqs[r].kind = "register" /\ reqs[r].pc = "done"
       /\ reqs[r].resp.status = 201
       /\ reqs[r].resp.user.id = u.id
       /\ reqs[r].body.password = "pw2"
       /\ u.password = bcryptHash("pw2", "s1")

\* C12: a login request, answered with success or with failure, leaves the
\* user store as it was: the same users with the same fields, and the same
\* id sequence.
C12_LoginOnlyReads ==
    [][\A r \in ReqIds :
          answered(r, "login") => /\ users' = users
                                  /\ nextUserId' = nextUserId]_vars

\* both slots hold an answered login over a full user store, one accepted
\* and one rejected
C12_Witness ==
    /\ Cardinality(users) = MaxUsers
    /\ \E r, q \in ReqIds :
          /\ reqs[r].kind = "login" /\ reqs[r].pc = "done"
          /\ reqs[q].kind = "login" /\ reqs[q].pc = "done"
          /\ reqs[r].resp.status = 201
          /\ reqs[q].resp.status = 401

(***************************************************************************)
(* Properties of the api instance and of the submitting pages              *)
(***************************************************************************)
\* the api instance sends the request of slot r in this step
sent(r) == reqs[r].pc = "idle" /\ reqs'[r].pc = "recv" /\ reqs'[r].viaApi

\* C13: a request sent through the api instance carries the header
\* Authorization: Bearer <token> with the token stored at the moment of
\* sending when one is stored, and no Authorization header when none is; the
\* request goes out in both cases.
C13_BearerOfStoredToken ==
    [][\A r \in ReqIds :
          sent(r) => /\ lsToken # NoToken =>
                          reqs'[r].auth = [scheme |-> "Bearer", token |-> lsToken]
                     /\ lsToken = NoToken => reqs'[r].auth = NoHeader]_vars

\* a login is in flight that carries the token of the session still stored
C13_Witness ==
    \E r \in ReqIds :
       /\ reqs[r].kind = "login" /\ reqs[r].pc = "recv" /\ reqs[r].viaApi
       /\ lsToken # NoToken
       /\ reqs[r].auth = [scheme |-> "Bearer", token |-> lsToken]

\* the call of slot r settles in the client in this step
received(r) ==
    /\ reqs[r].viaApi /\ reqs[r].pc \in {"done", "lost"}
    /\ reqs'[r].pc = "idle"

\* C14: the client ends the session and goes to /login on status 401 only.
\* A failed call of any other status (403, 404, 409) or with no response
\* leaves the entries `token` and `user` and the route as they are; a
\* successful call never removes an entry or leads to /login, and changes
\* the entries only when it is the login or registration that stores them.
C14_OnlyUnauthorizedForcesLogout ==
    [][\A r \in ReqIds :
          (received(r) /\ reqs[r].resp.status # 401) =>
             /\ isError(reqs[r].resp) =>
                   lsToken' = lsToken /\ lsUser' = lsUser /\ location' = location
             /\ reqs[r].kind \notin {"login", "register"} =>
                   lsToken' = lsToken /\ lsUser' = lsUser
             /\ lsToken # NoToken => lsToken' # NoToken
             /\ lsUser # NoUser => lsUser' # NoUser
             /\ location' = "/login" => location = "/login"]_vars

\* a second enrollment was refused with 409 and the session is still stored,
\* on the page of the courses
C14_Witness ==
    /\ last = [kind |-> "enroll", status |-> 409]
    /\ lsToken # NoToken /\ lsUser # NoUser
    /\ location = "/student/courses"

\* C15: when a login or a registration made by the client succeeds, storage
\* holds the returned token under `token` and the returned snapshot
\* {id, name, email, role} under `user`, and the client goes to
\* /admin-dashboard when the returned role is admin, to /student-dashboard
\* otherwise.
C15_SessionStoredAndRedirected ==
    [][\A r \in ReqIds :
          (/\ received(r)
           /\ reqs[r].kind \in {"login", "register"}
           /\ ~isError(reqs[r].resp))
          => /\ lsToken' = reqs[r].resp.access_token
             /\ lsToken' # NoToken
             /\ lsUser' = reqs[r].resp.user
             /\ DOMAIN lsUser' = UserViewFields
             /\ reqs[r].resp.user.role = "admin" => location' = "/admin-dashboard"
             /\ reqs[r].resp.user.role # "admin" => location' = "/student-dashboard"]_vars

\* an instructor has just logged in and is on the student dashboard
C15_Witness ==
    /\ last = [kind |-> "login", status |-> 201]
    /\ lsToken # NoToken
    /\ lsUser.role = "instructor"
    /\ location = "/student-dashboard"

(***************************************************************************)
(* Properties of registration and of the routes                            *)
(***************************************************************************)
\* C17: a registration with an email no user has is not refused and creates
\* exactly one user, whose role is the submitted role, or student when none
\* was submitted, and is answered with a token for that user; a registrant
\* who submits the role admin through the form is stored as admin and is
\* taken to the admin dashboard, which keeps them.
C17_RegistrationGrantsSubmittedRole ==
    [][\A r \in ReqIds :
          /\ (/\ reqs[r].kind = "register" /\ reqs[r].pc = "recv"
              /\ reqs'[r].pc # "recv"
              /\ findByEmail(reqs[r].body.email) = {})
             => reqs'[r].pc = "create"
          /\ (answered(r, "register") /\ findByEmail(reqs[r].body.email) = {})
             => \E u \in users' :
                   /\ u \notin users /\ users' = users \cup {u}
                   /\ u.email = reqs[r].body.email
                   /\ u.role = IF reqs[r].body.role = NoRole THEN "student"
                               ELSE reqs[r].body.role
                   /\ reqs'[r].resp.status = 201
                   /\ reqs'[r].resp.access_token.key = ServerKey
                   /\ reqs'[r].resp.access_token.sub = u.id
                   /\ reqs'[r].resp.access_token.role = u.role
                   /\ reqs'[r].resp.user.id = u.id
                   /\ reqs'[r].resp.user.role = u.role
          /\ (/\ received(r) /\ reqs[r].kind = "register"
              /\ ~isError(reqs[r].resp)
              /\ reqs[r].body.role = "admin")
             => /\ \E u \in users : u.email = reqs[r].body.email /\ u.role = "admin"
                /\ lsUser'.role = "admin"
                /\ location' = "/admin-dashboard"
                /\ pageEffect(location', lsUser') = location']_vars

\* a registrant who chose admin in the form is on the admin dashboard, beside
\* a user registered with no role who was made a student
C17_Witness ==
    /\ last = [kind |-> "register", status |-> 201]
    /\ lsUser.role = "admin"
    /\ location = "/admin-dashboard"
    /\ \E u \in users : u.id = lsUser.id /\ u.role = "admin"
    /\ \E u \in users : u.id # lsUser.id /\ u.role = "student"

\* a page is rendered and its effect asks for no other route
staysRendered(loc) == location = loc /\ pageEffect(loc, lsUser) = loc

\* C18: for a logged-in user whose stored role is student, none of the admin
\* pages stays rendered: the user is sent to /student-dashboard.
C18_StudentKeptOffAdminPages ==
    (lsToken # NoToken /\ lsUser.role = "student")
       => \A loc \in AdminPages : ~staysRendered(loc)

\* C19: a route under ProtectedRoute renders its page only when a token is
\* in storage at the time of the render; with no token the route yields
\* /login and the page is not rendered.
C19_ProtectedNeedsToken ==
    [][/\ (location' # location /\ location' \notin PublicLocations)
            => lsToken' # NoToken
       /\ \A loc \in Locations \ PublicLocations :
             /\ ProtectedRoute(loc, NoToken) = "/login"
             /\ lsToken # NoToken => ProtectedRoute(loc, lsToken) = loc]_vars

\* a protected page is rendered for the stored session of a user
C19_Witness ==
    /\ lsToken # NoToken
    /\ location = "/student/my-courses"
    /\ \E u \in users : u.id = lsUser.id

(***************************************************************************)
(* The server and the snapshot the client holds                            *)
(***************************************************************************)
\* the status that the bearer token and the user store decide for POST /courses
decidedStatus(token) ==
    IF token = NoToken \/ ~genuine(token) \/ findOne(token.sub) = {} THEN 401
    ELSE IF \E u \in findOne(token.sub) : u.role = "admin" THEN 201
    ELSE 403

\* C16: the outcome of a protected request is decided by the bearer token and
\* the user store alone: whatever the `user` entry of the client says, the
\* status, the principal attached and the course inserted are those of the
\* token's stored user.
C16_SnapshotDecidesNothing ==
    [][\A r \in ReqIds :
          answered(r, "createCourse") =>
             /\ reqs'[r].resp.status = decidedStatus(bearer(r))
             /\ \A u \in findOne(bearer(r).sub) :
                   decidedStatus(bearer(r)) # 401 =>
                      /\ reqs'[r].user.id = u.id
                      /\ reqs'[r].user.role = u.role
             /\ decidedStatus(bearer(r)) = 401 => reqs'[r].user = NoUser
             /\ decidedStatus(bearer(r)) # 201 => courses' = courses
             /\ decidedStatus(bearer(r)) = 201 =>
                   \E c \in courses' \ courses : c.instructor = bearer(r).sub]_vars

\* the client whose `user` entry says admin was refused with 403: the stored
\* role of its token's user is student
C16_Witness ==
    \E r \in ReqIds : \E u \in users :
       /\ reqs[r].kind = "createCourse" /\ reqs[r].pc = "done" /\ reqs[r].viaApi
       /\ reqs[r].resp.status = 403
       /\ lsUser.role = "admin"
       /\ lsUser.id = u.id /\ u.role = "student"
       /\ bearer(r).sub = u.id

(***************************************************************************)
(* Properties of the enrollments                                           *)
(***************************************************************************)
\* the enroll request of slot r passes the guard and its checks are made in
\* this step
checked(r) ==
    /\ reqs[r].kind = "enroll" /\ reqs[r].pc = "recv" /\ reqs'[r].pc # "recv"
    /\ genuine(bearer(r)) /\ findOne(bearer(r).sub) # {}

\* the enrollment of slot r is saved in this step
saved(r) ==
    /\ reqs[r].kind = "enroll" /\ reqs[r].pc = "create" /\ reqs'[r].pc = "done"
    /\ findOne(reqs[r].user.id) # {} /\ findCourse(reqs[r].body.course) # {}

\* C20: an enroll request for a student and a course that already have an
\* enrollment fails with 409 'Already enrolled' and adds none; one for a
\* course that is not stored fails with 404 'Course not found' and adds
\* none; any other goes on to add exactly one enrollment, of that student in
\* that course.
C20_EnrollOnceOrFail ==
    [][\A r \in ReqIds :
          /\ checked(r) =>
                LET pair == existing(bearer(r).sub, reqs[r].body.course)
                    course == findCourse(reqs[r].body.course)
                IN /\ pair # {} => /\ reqs'[r].pc = "done"
                                   /\ reqs'[r].resp = error(409, "Already enrolled")
                   /\ (pair = {} /\ course = {}) =>
                         /\ reqs'[r].pc = "done"
                         /\ reqs'[r].resp = error(404, "Course not found")
                   /\ (pair = {} /\ course # {}) =>
                         /\ reqs'[r].pc = "create"
                         /\ reqs'[r].user.id = bearer(r).sub
                   /\ enrollments' = enrollments
          /\ saved(r) =>
                /\ reqs'[r].resp.status = 201
                /\ \E e \in enrollments' :
                      /\ e \notin enrollments
                      /\ enrollments' = enrollments \cup {e}
                      /\ e.student = reqs[r].user.id
                      /\ e.course = reqs[r].body.course]_vars

\* a student with one enrollment asked for it again and was refused with 409
C20_Witness ==
    \E r \in ReqIds : \E e \in enrollments :
       /\ reqs[r].kind = "enroll" /\ reqs[r].pc = "done"
       /\ reqs[r].resp = alreadyEnrolled
       /\ e.student = reqs[r].user.id /\ e.course = reqs[r].body.course
       /\ enrollments = {e}

(***************************************************************************)
(* Properties of the logout                                                *)
(***************************************************************************)
\* a step of the client that removes the token without a response settling
loggingOut == lsToken # NoToken /\ lsToken' = NoToken /\ reqs' = reqs

\* a login or a registration of the client succeeds in this step
sessionStored ==
    \E r \in ReqIds : /\ received(r)
                      /\ reqs[r].kind \in {"login", "register"}
                      /\ ~isError(reqs[r].resp)

\* C21: the logout of the header removes `token` and `user` and goes to
\* /login, and from then on, until a login or a registration succeeds, no
\* token is stored and every protected route yields /login.
C21_LogoutEndsSession ==
    [][/\ loggingOut => /\ lsUser' = NoUser
                        /\ location' = "/login"
       /\ (lsToken = NoToken /\ lsToken' # NoToken) => sessionStored
       /\ lsToken' = NoToken =>
             /\ lsUser' = NoUser
             /\ location' \in PublicLocations
             /\ \A loc \in Locations \ PublicLocations :
                   ProtectedRoute(loc, lsToken') = "/login"]_vars

\* the session of a successful login was ended by the logout
C21_Witness ==
    /\ loggedOut # NoToken
    /\ lsToken = NoToken /\ lsUser = NoUser
    /\ location = "/login"
    /\ last = [kind |-> "login", status |-> 201]

\* C22: the logout changes nothing on the server, and the gate goes on
\* accepting the token of the logged-out session on a request made after the
\* logout, as long as the token is unexpired and its user is stored.
C22_LoggedOutTokenAccepted ==
    [][/\ loggingOut => server' = server
       /\ \A r \in ReqIds : \A u \in users :
             (/\ answered(r, "createCourse")
              /\ ~reqs[r].viaApi
              /\ bearer(r) = loggedOut
              /\ genuine(bearer(r))
              /\ u.id = bearer(r).sub)
             => /\ reqs'[r].user.id = u.id
                /\ reqs'[r].resp.status = IF u.role = "admin" THEN 201 ELSE 403]_vars

\* after the logout of an admin, a request with the token of the ended
\* session created a course
C22_Witness ==
    \E r \in ReqIds :
       /\ reqs[r].kind = "createCourse" /\ reqs[r].pc = "done" /\ ~reqs[r].viaApi
       /\ bearer(r) = loggedOut
       /\ reqs[r].resp.status = 201
       /\ lsToken = NoToken

C28_OneEnrollmentPerPair ==
    \A e1, e2 \in enrollments :
       (e1.student = e2.student /\ e1.course = e2.course) => e1 = e2

(***************************************************************************)
(* Properties of the role-based redirects                                  *)
(***************************************************************************)
\* the routes that redirect by role
RoleRouted == {"/", "/admin-dashboard", "/student-dashboard"}

RECURSIVE redirected(_, _, _)
\* the route reached from loc after n redirects, for the stored user
redirected(loc, user, n) ==
    IF n = 0 THEN loc ELSE redirected(pageEffect(loc, user), user, n - 1)

\* C25: whatever role the stored user has, the role-based redirects of a
\* logged-in client end: from /, /admin-dashboard or /student-dashboard it
\* is on a dashboard that redirects no further after finitely many
\* redirects. The redirect is a function of the route and the stored user,
\* so a chain that ends does so before a route repeats.
C25_RedirectsTerminate ==
    (lsToken # NoToken /\ lsUser # NoUser /\ location \in RoleRouted)
       => LET final == redirected(location, lsUser, Cardinality(RoleRouted))
          IN /\ final \in {"/admin-dashboard", "/student-dashboard"}
             /\ pageEffect(final, lsUser) = final

(***************************************************************************)
(* Properties of the submit handlers                                       *)
(***************************************************************************)
\* the response of call r reaches, in this step, the handler of the mounted
\* page that awaits it
settles(r) ==
    /\ reqs[r].viaApi /\ reqs[r].pc \in {"done", "lost"} /\ reqs'[r].pc = "idle"
    /\ r \in page.pending

\* C23: the submit handlers of Login, Register and CreateCourse and the
\* enroll action leave the page only after a successful response; when the
\* call fails the user stays on the page, the form keeps its contents, an
\* error message is shown and the loading flag is false again.
C23_FailureKeepsPage ==
    [][\A r \in ReqIds :
          settles(r) =>
             /\ location' # location => ~isError(reqs[r].resp)
             /\ isError(reqs[r].resp) =>
                   /\ location' = location
                   /\ page'.form = page.form
                   /\ page'.error # ""
                   /\ ~page'.loading]_vars

(***************************************************************************)
(* Properties of overlapping calls of the client                           *)
(***************************************************************************)
\* the 401 that answers call r, a call sent before the login whose session
\* was stored last, reaches the client in this step
lateUnauthorized(r) ==
    /\ reqs[r].viaApi /\ reqs[r].pc = "done" /\ reqs'[r].pc = "idle"
    /\ reqs[r].resp.status = 401
    /\ r \in stale
    /\ last = [kind |-> "login", status |-> 201]
    /\ lsToken # NoToken

\* C27 as stated: the credentials stored by a successful login are not
\* removed by a 401 that answers a call sent before that login: with several
\* calls in flight, a late 401 for an older call does not log out the newer
\* session.
C27_LateUnauthorizedKeepsSession ==
    [][\A r \in ReqIds :
          lateUnauthorized(r) =>
             /\ lsToken' = lsToken
             /\ lsUser' = lsUser
             /\ location' = location]_vars

\* C27, amended: the credentials stored by a successful login are removed by
\* a 401 that answers a call sent before that login: with several calls in
\* flight, a late 401 for an older call removes `token` and `user` of the
\* newer session and sends the browser to /login.
C27_LateUnauthorizedEndsSession ==
    [][\A r \in ReqIds :
          lateUnauthorized(r) =>
             /\ lsToken' = NoToken
             /\ lsUser' = NoUser
             /\ location' = "/login"]_vars

\* the session of a login was ended by the 401 of a call sent before it
C27_Witness ==
    /\ late
    /\ last.status = 401
    /\ lsToken = NoToken /\ lsUser = NoUser /\ location = "/login"

(***************************************************************************)
(* Properties of the enrollments page                                      *)
(***************************************************************************)
RECURSIVE enrollmentsOfFetched(_, _)
\* the enrollments of the listed courses whose fetch succeeded, in the order
\* of the list, each with the title of its course
enrollmentsOfFetched(listed, got) ==
    IF listed = << >> THEN << >>
    ELSE LET course == Head(listed)
         IN (IF course.id \in got
             THEN tagged(getCourseEnrollments(course.id), course.title)
             ELSE << >>) \o enrollmentsOfFetched(Tail(listed), got)

\* C24: when fetchEnrollments of AdminEnrollments has ended, the list shown
\* is exactly the enrollments of the courses whose fetch succeeded, in course
\* order and each tagged with the title of its course; a failed fetch of one
\* course is skipped and sets no error message; a failed fetch of the course
\* list sets the error message and leaves the list empty; the loading flag
\* is false in every case.
C24_ListOfFetchedCourses ==
    (location = "/admin/enrollments" /\ page.fetch = "done") =>
       /\ ~page.loading
       /\ IF page.listFailed
          THEN /\ page.error = "Failed to load enrollments"
               /\ page.enrollments = << >>
          ELSE /\ page.error = ""
               /\ page.enrollments = enrollmentsOfFetched(page.listed, page.got)

\* of two courses with enrollments the fetch of the first failed and the
\* fetch of the second succeeded: the list shows the second course only
C24_Witness ==
    /\ location = "/admin/enrollments" /\ page.fetch = "done"
    /\ Len(page.listed) = 2
    /\ page.got = {2}
    /\ getCourseEnrollments(1) # << >>
    /\ Len(page.enrollments) = 2
    /\ page.enrollments[1].courseTitle = page.listed[2].title
    /\ page.listed[1].title # page.listed[2].title

====
